---------------------------- MODULE Spec2Model ----------------------------
(***************************************************************************)
(* Model of package cmdline (src/cmdline.go) together with the callback of *)
(* its test file (src/unnamed/part_000, parse_cmdline).                    *)
(*                                                                         *)
(* Go strings are modelled as sequences of one-character strings, so that  *)
(* prefix tests, dash trimming, splitting at "=" and integer parsing are   *)
(* computed the way the code computes them.                                *)
(***************************************************************************)
EXTENDS Integers, Sequences, FiniteSets, TLC

VARIABLES
    args,       \* the argument vector handed to ParseArgs
    Program,    \* package variable Program
    parser,     \* the *Parser of the running ParseArgs call
    pc,         \* position inside ParseArgs: start, loop, fn, ret, done
    mode,       \* which callback fn is: "test" (parse_cmdline) or "any"
    opts,       \* the Opts value of parse_cmdline
    result,     \* the error returned by ParseArgs (NoErr while running)
    call,       \* the last query method the callback called, with its result
    cur,        \* the raw token the callback is being invoked for
    nfn,        \* number of callback invocations so far
    nhelp,      \* number of HelpFunc invocations so far
    nlook,      \* number of values IsStrOpt has taken from a following token
    nmark,      \* number of "--" markers ParseArgs has consumed
    text,       \* the help text handed to PrintHelp
    stdout      \* what has been written to os.Stdout

vars == <<args, Program, parser, pc, mode, opts, result, call, cur, nfn, nhelp,
          nlook, nmark, text, stdout>>

----------------------------------------------------------------------------
(* Bounds of the model *)

\* longest argument vector (tokens after the program path) with the test callback
MaxArgs == 4

\* longest argument vector with an arbitrary callback
MaxAnyArgs == 3

\* longest argument vector of integer-valued tokens
MaxIntArgs == 2

\* longest argument vector of the parses checked for termination
MaxTermArgs == 2

\* longest help text
MaxHelpLen == 5

\* longest argument vector of the successive calls of one process
MaxAgainArgs == 2

\* longest argument vector of dash-only and empty-value tokens
MaxEdgeArgs == 2

----------------------------------------------------------------------------
(* Strings *)

Empty == <<>>

\* strings.HasPrefix(s, "-")
HasDashPrefix(s) == Len(s) > 0 /\ s[1] = "-"

\* strings.TrimLeft(s, "-")
RECURSIVE TrimLeftDash(_)
TrimLeftDash(s) ==
    IF Len(s) > 0 /\ s[1] = "-" THEN TrimLeftDash(Tail(s)) ELSE s

\* index of the first "=" in s, 0 if there is none
RECURSIVE IndexEq(_, _)
IndexEq(s, i) ==
    IF i > Len(s) THEN 0
    ELSE IF s[i] = "=" THEN i
    ELSE IndexEq(s, i + 1)

\* strings.SplitN(s, "=", 2)
SplitN2(s) ==
    LET i == IndexEq(s, 1) IN
    IF i = 0 THEN <<s>>
    ELSE <<SubSeq(s, 1, i - 1), SubSeq(s, i + 1, Len(s))>>

Digits == {"0", "1", "2", "3", "4", "5", "6", "7", "8", "9"}

DigitVal(c) ==
    CASE c = "0" -> 0 [] c = "1" -> 1 [] c = "2" -> 2 [] c = "3" -> 3
      [] c = "4" -> 4 [] c = "5" -> 5 [] c = "6" -> 6 [] c = "7" -> 7
      [] c = "8" -> 8 [] c = "9" -> 9

RECURSIVE DigitsVal(_, _)
DigitsVal(s, acc) ==
    IF s = Empty THEN acc ELSE DigitsVal(Tail(s), acc * 10 + DigitVal(s[1]))

\* strconv.ParseInt(s, 10, 64): an optional sign followed by at least one
\* decimal digit and nothing else.  The tokens of the model are far too
\* short to leave the int64 range, so the range error never arises.
ParseInt(s) ==
    LET signed == Len(s) > 0 /\ s[1] \in {"+", "-"}
        body   == IF signed THEN Tail(s) ELSE s
    IN  IF body = Empty \/ \E i \in 1..Len(body) : body[i] \notin Digits
        THEN [ok |-> FALSE, val |-> 0]
        ELSE [ok |-> TRUE,
              val |-> IF signed /\ s[1] = "-"
                      THEN 0 - DigitsVal(body, 0) ELSE DigitsVal(body, 0)]

\* index of the last "/" in s, 0 if there is none
RECURSIVE LastSlash(_, _)
LastSlash(s, i) ==
    IF i = 0 THEN 0 ELSE IF s[i] = "/" THEN i ELSE LastSlash(s, i - 1)

RECURSIVE TrimRightSlash(_)
TrimRightSlash(s) ==
    IF Len(s) > 0 /\ s[Len(s)] = "/" THEN TrimRightSlash(SubSeq(s, 1, Len(s) - 1))
    ELSE s

\* path.Base(p)
Base(p) ==
    IF p = Empty THEN <<".">>
    ELSE LET t == TrimRightSlash(p) IN
         IF t = Empty THEN <<"/">>
         ELSE SubSeq(t, LastSlash(t, Len(t)) + 1, Len(t))

----------------------------------------------------------------------------
(* FormatHelp and PrintHelp *)

\* unicode.IsSpace on the characters of the model
IsSpace(c) == c \in {" ", "\t", "\n", "\r", "\f"}

\* strings.Split(s, "\n")
RECURSIVE Split(_)
Split(s) ==
    IF \A i \in 1..Len(s) : s[i] # "\n" THEN <<s>>
    ELSE LET i == CHOOSE i \in 1..Len(s) :
                      s[i] = "\n" /\ \A j \in 1..(i - 1) : s[j] # "\n"
         IN  <<SubSeq(s, 1, i - 1)>> \o Split(SubSeq(s, i + 1, Len(s)))

RECURSIVE TrimLeftSpace(_)
TrimLeftSpace(s) ==
    IF Len(s) > 0 /\ IsSpace(s[1]) THEN TrimLeftSpace(Tail(s)) ELSE s

RECURSIVE TrimRightSpace(_)
TrimRightSpace(s) ==
    IF Len(s) > 0 /\ IsSpace(s[Len(s)])
    THEN TrimRightSpace(SubSeq(s, 1, Len(s) - 1)) ELSE s

\* strings.TrimSpace
TrimSpace(s) == TrimRightSpace(TrimLeftSpace(s))

\* strings.CutPrefix(line, "|")
CutPrefix(line) ==
    IF Len(line) > 0 /\ line[1] = "|"
    THEN [after |-> Tail(line), found |-> TRUE]
    ELSE [after |-> line, found |-> FALSE]

\* lines 91-96: the body of the first loop of FormatHelp
FormatLine(l) ==
    LET line == TrimSpace(l)
        c    == CutPrefix(line)
    IN  IF c.found THEN <<" ">> \o c.after ELSE line

\* lines 99-107: the second loop of FormatHelp
RECURSIVE DropTrailingEmpty(_)
DropTrailingEmpty(lines) ==
    IF Len(lines) > 0 /\ lines[Len(lines)] = Empty
    THEN DropTrailingEmpty(SubSeq(lines, 1, Len(lines) - 1))
    ELSE lines

\* strings.Join(lines, "\n")
RECURSIVE Join(_)
Join(lines) ==
    IF Len(lines) = 0 THEN Empty
    ELSE IF Len(lines) = 1 THEN lines[1]
    ELSE lines[1] \o <<"\n">> \o Join(Tail(lines))

\* FormatHelp without its second loop: trailing empty lines stay
FormatHelpKeepingEmptyLines(help) ==
    LET lines == Split(help)
    IN  Join([i \in 1..Len(lines) |-> FormatLine(lines[i])])

\* FormatHelp
FormatHelp(help) ==
    LET lines == Split(help)
    IN  Join(DropTrailingEmpty([i \in 1..Len(lines) |-> FormatLine(lines[i])]))

----------------------------------------------------------------------------
(* Errors: the format string and its arguments, as given to Errorf.  The   *)
(* format strings are written in ASCII: ue for u-umlaut, ss for sharp s.   *)

NoErr == [fmt |-> "", s |-> <<>>, i |-> <<>>]

Err(fmt, s, i) == [fmt |-> fmt, s |-> s, i |-> i]

ErrUnknownOpt(opt)   == Err("Unbekannte Option: --%s", <<opt>>, <<>>)
ErrTooManyArgs       == Err("Zu viele Argumente!", <<>>, <<>>)
ErrNoValueAllowed(opt) == Err("Option erlaubt kein Options-Argument: --%s", <<opt>>, <<>>)
ErrValueExpected(opt)  == Err("Option erwartet ein Options-Argument: --%s", <<opt>>, <<>>)
ErrInvalidNumber(val, opt) == Err("Ungueltige Zahl: %s (Option --%s)", <<val, opt>>, <<>>)
ErrTooSmall(min, val, opt) == Err("Zahl muss >= %d sein: %d (Option --%s)", <<opt>>, <<min, val>>)
ErrTooLarge(max, val, opt) == Err("Zahl muss <= %d sein: %d (Option --%s)", <<opt>>, <<max, val>>)

----------------------------------------------------------------------------
(* Package variables as parse_cmdline sets them *)

\* Help = `Verwendung: cmdline [OPTS]`
Help == "Verwendung: cmdline [OPTS]"

\* bounds of the level option and the limit on ArgIdx in parse_cmdline
LevelMin == 0
LevelMax == 3
ArgLimit == 3

\* option names used by parse_cmdline
verbose == <<"v", "e", "r", "b", "o", "s", "e">>
file    == <<"f", "i", "l", "e">>
level   == <<"l", "e", "v", "e", "l">>

----------------------------------------------------------------------------
(* type Parser and its methods *)

\* &Parser{rest: rest}
NewParser(rest) ==
    [rest |-> rest, argIdx |-> 0, onlyArgs |-> FALSE, opt |-> Empty,
     strVal |-> Empty, intVal |-> 0, grabbed |-> FALSE, err |-> NoErr]

\* popNextArg passing over the token behind the one it returns
popNextArgSkipping(p) ==
    IF Len(p.rest) = 0 THEN [p |-> p, arg |-> Empty]
    ELSE [p |-> [p EXCEPT !.rest = IF Len(p.rest) > 1 THEN Tail(Tail(p.rest))
                                   ELSE Tail(p.rest)],
          arg |-> Head(p.rest)]

\* (*Parser).popNextArg
popNextArg(p) ==
    IF Len(p.rest) = 0 THEN [p |-> p, arg |-> Empty]
    ELSE [p |-> [p EXCEPT !.rest = Tail(p.rest)], arg |-> Head(p.rest)]

\* parseArg without the sentinel: a dash-only token gets the empty option name
parseArgWithoutSentinel(arg) ==
    IF HasDashPrefix(arg)
    THEN LET parts == SplitN2(TrimLeftDash(arg)) IN
         [opt    |-> parts[1],
          strVal |-> IF Len(parts) > 1 THEN parts[2] ELSE Empty]
    ELSE [opt |-> Empty, strVal |-> arg]

\* (*Parser).parseArg
parseArg(arg) ==
    IF HasDashPrefix(arg)
    THEN LET parts == SplitN2(TrimLeftDash(arg)) IN
         [opt    |-> IF parts[1] = Empty THEN <<"?", "?", "?">> ELSE parts[1],
          strVal |-> IF Len(parts) > 1 THEN parts[2] ELSE Empty]
    ELSE [opt |-> Empty, strVal |-> arg]

\* (*Parser).Errorf with ErrorFunc = ReturnError, which does nothing
Errorf(p, e) == [p EXCEPT !.err = e]

\* IsOpt without the test for an inline value
IsOptIgnoringValue(p, long, short) ==
    IF p.opt # long /\ p.opt # short THEN [p |-> p, ret |-> FALSE]
    ELSE [p |-> [p EXCEPT !.opt = long, !.grabbed = TRUE], ret |-> TRUE]

\* (*Parser).IsOpt
IsOpt(p, long, short) ==
    IF p.opt # long /\ p.opt # short THEN [p |-> p, ret |-> FALSE]
    ELSE LET q == [p EXCEPT !.opt = long] IN
         IF q.strVal # Empty
         THEN [p |-> Errorf(q, ErrNoValueAllowed(q.opt)), ret |-> FALSE]
         ELSE [p |-> [q EXCEPT !.grabbed = TRUE], ret |-> TRUE]

\* IsStrOpt taking the next token as the value whatever it looks like
IsStrOptTakingAnyToken(p, long, short) ==
    IF p.opt # long /\ p.opt # short THEN [p |-> p, ret |-> FALSE]
    ELSE LET q == [p EXCEPT !.opt = long] IN
         IF q.strVal # Empty
         THEN [p |-> [q EXCEPT !.grabbed = TRUE], ret |-> TRUE]
         ELSE IF Len(q.rest) > 0
         THEN LET r == popNextArg(q)
              IN  [p |-> [r.p EXCEPT !.strVal = r.arg, !.grabbed = TRUE], ret |-> TRUE]
         ELSE [p |-> Errorf(q, ErrValueExpected(q.opt)), ret |-> FALSE]

\* IsStrOpt reading the value from the next token without removing it
IsStrOptKeepingValueToken(p, long, short) ==
    IF p.opt # long /\ p.opt # short THEN [p |-> p, ret |-> FALSE]
    ELSE LET q == [p EXCEPT !.opt = long] IN
         IF q.strVal # Empty
         THEN [p |-> [q EXCEPT !.grabbed = TRUE], ret |-> TRUE]
         ELSE IF Len(q.rest) > 0
         THEN LET a == parseArg(Head(q.rest))
              IN  IF a.opt = Empty /\ a.strVal # Empty
                  THEN [p |-> [q EXCEPT !.strVal = a.strVal, !.grabbed = TRUE],
                        ret |-> TRUE]
                  ELSE [p |-> Errorf(q, ErrValueExpected(q.opt)), ret |-> FALSE]
         ELSE [p |-> Errorf(q, ErrValueExpected(q.opt)), ret |-> FALSE]

\* IsStrOpt without line 298: the option name stays as it was classified
IsStrOptKeepingName(p, long, short) ==
    IF p.opt # long /\ p.opt # short THEN [p |-> p, ret |-> FALSE]
    ELSE IF p.strVal # Empty
         THEN [p |-> [p EXCEPT !.grabbed = TRUE], ret |-> TRUE]
         ELSE IF Len(p.rest) > 0
         THEN LET r == popNextArg(p)
                  a == parseArg(r.arg)
              IN  IF a.opt = Empty /\ a.strVal # Empty
                  THEN [p |-> [r.p EXCEPT !.strVal = a.strVal, !.grabbed = TRUE],
                        ret |-> TRUE]
                  ELSE [p |-> Errorf(r.p, ErrValueExpected(r.p.opt)), ret |-> FALSE]
         ELSE [p |-> Errorf(p, ErrValueExpected(p.opt)), ret |-> FALSE]

\* (*Parser).IsStrOpt
IsStrOpt(p, long, short) ==
    IF p.opt # long /\ p.opt # short THEN [p |-> p, ret |-> FALSE]
    ELSE LET q == [p EXCEPT !.opt = long] IN
         IF q.strVal # Empty
         THEN [p |-> [q EXCEPT !.grabbed = TRUE], ret |-> TRUE]
         ELSE IF Len(q.rest) > 0
         THEN LET r == popNextArg(q)
                  a == parseArg(r.arg)
              IN  IF a.opt = Empty /\ a.strVal # Empty
                  THEN [p |-> [r.p EXCEPT !.strVal = a.strVal, !.grabbed = TRUE],
                        ret |-> TRUE]
                  ELSE [p |-> Errorf(r.p, ErrValueExpected(r.p.opt)), ret |-> FALSE]
         ELSE [p |-> Errorf(q, ErrValueExpected(q.opt)), ret |-> FALSE]

\* (*Parser).StrVal
StrVal(p) == p.strVal

\* IsIntOpt with the upper bound exclusive
IsIntOptBelowMax(p, long, short, min, max) ==
    LET s == IsStrOpt(p, long, short) IN
    IF ~s.ret THEN [p |-> s.p, ret |-> FALSE]
    ELSE LET q == s.p
             n == ParseInt(q.strVal)
         IN  IF ~n.ok
             THEN [p |-> Errorf(q, ErrInvalidNumber(q.strVal, q.opt)), ret |-> FALSE]
             ELSE IF n.val < min
             THEN [p |-> Errorf(q, ErrTooSmall(min, n.val, q.opt)), ret |-> FALSE]
             ELSE IF n.val >= max
             THEN [p |-> Errorf(q, ErrTooLarge(max, n.val, q.opt)), ret |-> FALSE]
             ELSE [p |-> [q EXCEPT !.intVal = n.val], ret |-> TRUE]

\* (*Parser).IsIntOpt
IsIntOpt(p, long, short, min, max) ==
    LET s == IsStrOpt(p, long, short) IN
    IF ~s.ret THEN [p |-> s.p, ret |-> FALSE]
    ELSE LET q == s.p
             n == ParseInt(q.strVal)
         IN  IF ~n.ok
             THEN [p |-> Errorf(q, ErrInvalidNumber(q.strVal, q.opt)), ret |-> FALSE]
             ELSE IF n.val < min
             THEN [p |-> Errorf(q, ErrTooSmall(min, n.val, q.opt)), ret |-> FALSE]
             ELSE IF n.val > max
             THEN [p |-> Errorf(q, ErrTooLarge(max, n.val, q.opt)), ret |-> FALSE]
             ELSE [p |-> [q EXCEPT !.intVal = n.val], ret |-> TRUE]

\* (*Parser).IntVal
IntVal(p) == p.intVal

\* (*Parser).IsArg
IsArg(p) == p.opt = Empty /\ p.strVal # Empty

\* (*Parser).ArgIdx
ArgIdx(p) == p.argIdx

\* (*Parser).IsArgN
IsArgN(p, idx) == IF p.argIdx # idx THEN FALSE ELSE IsArg(p)

\* Arg without the test of grabbed: every call advances the index
ArgAlwaysAdvancing(p) ==
    [p |-> [p EXCEPT !.grabbed = TRUE, !.argIdx = p.argIdx + 1], ret |-> p.strVal]

\* (*Parser).Arg
Arg(p) ==
    IF ~p.grabbed
    THEN [p |-> [p EXCEPT !.grabbed = TRUE, !.argIdx = p.argIdx + 1], ret |-> p.strVal]
    ELSE [p |-> p, ret |-> p.strVal]

----------------------------------------------------------------------------
(* The callback and the help handler of parse_cmdline *)

NewOpts ==
    [verbose |-> FALSE, help |-> "", file |-> Empty, level |-> 0,
     cmd |-> Empty, args |-> <<>>]

\* HelpFunc = func(help string) { opts.help = help }
HelpFunc(o, help) == [o EXCEPT !.help = help]

\* the func(p *Parser) literal handed to ParseArgs: a switch whose cases
\* are tried in order, the first true one running its body
TestFn(p, o) ==
    LET c1 == IsOpt(p, verbose, <<"v">>) IN
    IF c1.ret THEN [p |-> c1.p, o |-> [o EXCEPT !.verbose = TRUE]]
    ELSE
    LET c2 == IsStrOpt(c1.p, file, <<"f">>) IN
    IF c2.ret THEN [p |-> c2.p, o |-> [o EXCEPT !.file = StrVal(c2.p)]]
    ELSE
    LET c3 == IsIntOpt(c2.p, level, <<"l">>, LevelMin, LevelMax) IN
    IF c3.ret THEN [p |-> c3.p, o |-> [o EXCEPT !.level = IntVal(c3.p)]]
    ELSE IF IsArgN(c3.p, 0)
    THEN LET a == Arg(c3.p) IN [p |-> a.p, o |-> [o EXCEPT !.cmd = a.ret]]
    ELSE IF IsArg(c3.p) /\ ArgIdx(c3.p) < ArgLimit
    THEN LET a == Arg(c3.p) IN [p |-> a.p, o |-> [o EXCEPT !.args = Append(@, a.ret)]]
    ELSE [p |-> c3.p, o |-> o]

----------------------------------------------------------------------------
(* ParseArgs, cut at the places where it calls fn *)

tHelp   == <<"-", "-", "h", "e", "l", "p">>
tMarker == <<"-", "-">>

\* ParseArgsEnter without the test of Program: every call sets it anew
ParseArgsEnterSettingProgram(a, prog) ==
    [Program |-> IF Len(a) > 0 THEN Base(a[1]) ELSE prog,
     p       |-> NewParser(IF Len(a) > 0 THEN Tail(a) ELSE a)]

\* lines 187-194: set Program if it is empty, drop args[0], make the parser
ParseArgsEnter(a, prog) ==
    [Program |-> IF Len(a) > 0 /\ prog = Empty THEN Base(a[1]) ELSE prog,
     p       |-> NewParser(IF Len(a) > 0 THEN Tail(a) ELSE a)]

\* lines 196-217 and 233: from the loop test to the call of fn.
\* to: "fn" (fn is called for token cur), or "done" (ParseArgs returns res).
ParseArgsLoop(p, o) ==
    IF Len(p.rest) = 0
    THEN [p |-> p, o |-> o, to |-> "done", res |-> NoErr, cur |-> Empty, help |-> FALSE, mark |-> FALSE]
    ELSE
    LET r == popNextArg(p) IN
    IF r.p.onlyArgs
    THEN [p |-> [r.p EXCEPT !.opt = Empty, !.strVal = r.arg, !.grabbed = FALSE],
          o |-> o, to |-> "fn", res |-> NoErr, cur |-> r.arg, help |-> FALSE, mark |-> FALSE]
    ELSE IF r.arg = tHelp
    THEN [p |-> r.p, o |-> HelpFunc(o, Help), to |-> "done", res |-> NoErr,
          cur |-> Empty, help |-> TRUE, mark |-> FALSE]
    ELSE IF r.arg = tMarker
    THEN IF Len(r.p.rest) = 0
         THEN [p |-> r.p, o |-> o, to |-> "done", res |-> r.p.err,
               cur |-> Empty, help |-> FALSE, mark |-> TRUE]
         ELSE LET r2 == popNextArg([r.p EXCEPT !.onlyArgs = TRUE])
                  a  == parseArg(r2.arg)
              IN  [p |-> [r2.p EXCEPT !.opt = a.opt, !.strVal = a.strVal,
                                      !.grabbed = FALSE],
                   o |-> o, to |-> "fn", res |-> NoErr, cur |-> r2.arg, help |-> FALSE, mark |-> TRUE]
    ELSE LET a == parseArg(r.arg) IN
         [p |-> [r.p EXCEPT !.opt = a.opt, !.strVal = a.strVal, !.grabbed = FALSE],
          o |-> o, to |-> "fn", res |-> NoErr, cur |-> r.arg, help |-> FALSE, mark |-> FALSE]

\* ParseArgsAfterFn without the test of grabbed: an unclaimed token is passed over
AfterFnIgnoringUnclaimed(p) ==
    IF p.err # NoErr THEN [p |-> p, to |-> "done", res |-> p.err]
    ELSE [p |-> p, to |-> "loop", res |-> NoErr]

\* ParseArgsAfterFn calling fn again for a claimed token instead of going on
AfterFnCallingAgain(p) ==
    IF p.err # NoErr THEN [p |-> p, to |-> "done", res |-> p.err]
    ELSE IF ~p.grabbed
    THEN LET q == Errorf(p, IF p.opt # Empty THEN ErrUnknownOpt(p.opt)
                            ELSE ErrTooManyArgs)
         IN  [p |-> q, to |-> "done", res |-> q.err]
    ELSE [p |-> p, to |-> "fn", res |-> NoErr]

\* lines 221-231: after fn has returned
ParseArgsAfterFn(p) ==
    IF p.err # NoErr THEN [p |-> p, to |-> "done", res |-> p.err]
    ELSE IF ~p.grabbed
    THEN LET q == Errorf(p, IF p.opt # Empty THEN ErrUnknownOpt(p.opt)
                            ELSE ErrTooManyArgs)
         IN  [p |-> q, to |-> "done", res |-> q.err]
    ELSE [p |-> p, to |-> "loop", res |-> NoErr]

\* a whole ParseArgs call with the callback of parse_cmdline, from the loop
\* test on: the parser, the Opts and the returned error at the return
RECURSIVE RunTest(_, _)
RunTest(p, o) ==
    LET h == ParseArgsLoop(p, o) IN
    IF h.to = "done" THEN [p |-> h.p, o |-> h.o, res |-> h.res]
    ELSE LET f == TestFn(h.p, h.o)
             c == ParseArgsAfterFn(f.p)
         IN  IF c.to = "done" THEN [p |-> c.p, o |-> f.o, res |-> c.res]
             ELSE RunTest(c.p, f.o)

\* parse_cmdline on the argument vector a
ParseCmdline(a) ==
    LET e == ParseArgsEnter(a, Empty) IN RunTest(e.p, NewOpts)

----------------------------------------------------------------------------
(* Argument vectors *)

\* the executable path, args[0]
tProg == <<"/", "b", "/", "c">>

tV       == <<"-", "v">>
tF       == <<"-", "f">>
tL       == <<"-", "l">>
tFileX   == <<"-", "-", "f", "i", "l", "e", "=", "x">>
tFile2   == <<"-", "-", "f", "i", "l", "e", "=", "2">>
tFile4   == <<"-", "-", "f", "i", "l", "e", "=", "4">>
tFileM1  == <<"-", "-", "f", "i", "l", "e", "=", "-", "1">>
tLevel2  == <<"-", "-", "l", "e", "v", "e", "l", "=", "2">>
tLevel4  == <<"-", "-", "l", "e", "v", "e", "l", "=", "4">>
tFile0   == <<"-", "-", "f", "i", "l", "e", "=", "0">>
tFile3   == <<"-", "-", "f", "i", "l", "e", "=", "3">>
tFileP1  == <<"-", "-", "f", "i", "l", "e", "=", "+", "1">>
tFileEq  == <<"-", "-", "f", "i", "l", "e", "=">>
tDash    == <<"-">>
tDash3   == <<"-", "-", "-">>
t3       == <<"3">>
tX       == <<"x">>
t2       == <<"2">>

\* tokens of the vectors parsed with the callback of parse_cmdline
TestTokens == {tV, tF, tL, tFileX, tLevel2, tLevel4, tX, t2, tMarker, tHelp}

\* tokens of the vectors parsed with an arbitrary callback
AnyTokens == {tF, tFileX, tFile2, tX, tMarker, tHelp}

\* tokens of the vectors that put integer values before IsIntOpt
IntTokens == {tF, tFileX, tFile0, tFile2, tFile3, tFile4, tFileM1, tFileP1, t3}

\* dash-only tokens and options with an empty inline value
EdgeTokens == {tDash, tDash3, tFileEq, tF, tFileX, tX, tMarker, tHelp}

\* first elements of the vectors of successive calls: paths, and tokens that
\* would be the help option or the marker at any later place
ProgPaths == {tProg, <<"d">>, tHelp, tMarker}

\* tokens after the first element in successive calls
AgainTokens == {tV, tX, tHelp, tMarker}

\* characters of the help texts
HelpChars == {"a", " ", "|", "\n", "\t"}

\* all sequences over S of length at most n
RECURSIVE SeqsUpTo(_, _)
SeqsUpTo(S, n) ==
    IF n = 0 THEN {<<>>}
    ELSE LET T == SeqsUpTo(S, n - 1) IN
         T \cup {Append(t, x) : t \in {u \in T : Len(u) = n - 1}, x \in S}

\* (long, short) name pairs an arbitrary callback passes to the matchers
AnyNames == {<<file, <<"f">>>>, <<verbose, Empty>>}

\* indexes an arbitrary callback passes to IsArgN
AnyIdx == {0, 1}

\* str is the string a call of Arg has returned
NoCall == [op |-> "", long |-> Empty, short |-> Empty, ret |-> FALSE, str |-> Empty]

----------------------------------------------------------------------------
(* The state machine *)

\* between the parser states p and q of one callback invocation an option
\* without inline value has got its value: IsStrOpt took it from the next token
TookNextToken(p, q) == p.strVal = Empty /\ q.strVal # Empty

\* the state before ParseArgs is called with callback m on one of the vectors A
InitWith(m, A) ==
    /\ mode = m
    /\ args \in A
    /\ Program = Empty
    /\ parser = NewParser(<<>>)
    /\ pc = "start"
    /\ opts = NewOpts
    /\ result = NoErr
    /\ call = NoCall
    /\ cur = Empty
    /\ nfn = 0
    /\ nhelp = 0
    /\ nlook = 0
    /\ nmark = 0
    /\ text = Empty
    /\ stdout = Empty

\* parse_cmdline: the callback of the test file
InitTest ==
    InitWith("test", {<<>>} \cup {<<tProg>> \o v : v \in SeqsUpTo(TestTokens, MaxArgs)})

\* an arbitrary callback
InitAny ==
    InitWith("any", {<<>>} \cup {<<tProg>> \o v : v \in SeqsUpTo(AnyTokens, MaxAnyArgs)})

\* an arbitrary callback, on vectors of integer-valued tokens
InitInt ==
    InitWith("any", {<<tProg>> \o v : v \in SeqsUpTo(IntTokens, MaxIntArgs)})

\* either callback, on vectors with dash-only and empty-value tokens
InitEdge ==
    \E m \in {"test", "any"} :
        InitWith(m, {<<tProg>> \o v : v \in SeqsUpTo(EdgeTokens, MaxEdgeArgs)})

\* the vectors of the successive calls of parse_cmdline in one process
AgainVectors ==
    {<<>>} \cup {<<q>> \o v : q \in ProgPaths, v \in SeqsUpTo(AgainTokens, MaxAgainArgs)}

\* the first call of parse_cmdline in a process
InitAgain == InitWith("test", AgainVectors)

\* PrintHelp is about to be called with a help text
InitHelp ==
    /\ text \in SeqsUpTo(HelpChars, MaxHelpLen)
    /\ stdout = Empty
    /\ pc = "help"
    /\ mode = "test"
    /\ args = <<>>
    /\ Program = Empty
    /\ parser = NewParser(<<>>)
    /\ opts = NewOpts
    /\ result = NoErr
    /\ call = NoCall
    /\ cur = Empty
    /\ nfn = 0
    /\ nhelp = 0
    /\ nlook = 0
    /\ nmark = 0

\* PrintHelp: fmt.Println(FormatHelp(help)), then os.Exit(0)
PrintHelp ==
    /\ pc = "help"
    /\ stdout' = stdout \o FormatHelp(text) \o <<"\n">>
    /\ pc' = "exit"
    /\ UNCHANGED <<args, Program, parser, mode, opts, result, call, cur, nfn, nhelp,
                   nlook, nmark, text>>

\* an arbitrary callback, on the vectors checked for termination
InitTerm ==
    InitWith("any", {<<>>} \cup {<<tProg>> \o v : v \in SeqsUpTo(AnyTokens, MaxTermArgs)})

\* ParseArgs is called: lines 187-194
Enter ==
    /\ pc = "start"
    /\ LET e == ParseArgsEnter(args, Program) IN
        /\ Program' = e.Program
        /\ parser' = e.p
    /\ pc' = "loop"
    /\ UNCHANGED <<args, mode, opts, result, call, cur, nfn, nhelp, nlook, nmark,
                   text, stdout>>

\* one pass from the loop test to the call of fn, or to a return
Loop ==
    /\ pc = "loop"
    /\ LET h == ParseArgsLoop(parser, opts) IN
        /\ parser' = h.p
        /\ opts' = h.o
        /\ pc' = h.to
        /\ result' = h.res
        /\ cur' = h.cur
        /\ nfn' = IF h.to = "fn" THEN nfn + 1 ELSE nfn
        /\ nhelp' = IF h.help THEN nhelp + 1 ELSE nhelp
        /\ nmark' = IF h.mark THEN nmark + 1 ELSE nmark
    /\ call' = NoCall
    /\ UNCHANGED <<args, Program, mode, nlook, text, stdout>>

\* fn is the callback of parse_cmdline: it runs and returns
FnTest ==
    /\ pc = "fn"
    /\ mode = "test"
    /\ LET f == TestFn(parser, opts) IN
        /\ parser' = f.p
        /\ opts' = f.o
        /\ nlook' = IF TookNextToken(parser, f.p) THEN nlook + 1 ELSE nlook
    /\ pc' = "ret"
    /\ UNCHANGED <<args, Program, mode, result, call, cur, nfn, nhelp, nmark,
                   text, stdout>>

\* an arbitrary callback calls a query method; it may call any number of them
Query(op, long, short, r) ==
    /\ pc = "fn"
    /\ mode = "any"
    /\ parser' = r.p
    /\ call' = [op |-> op, long |-> long, short |-> short, ret |-> r.ret,
                str |-> IF op = "Arg" THEN r.str ELSE Empty]
    /\ nlook' = IF TookNextToken(parser, r.p) THEN nlook + 1 ELSE nlook
    /\ UNCHANGED <<args, Program, pc, mode, opts, result, cur, nfn, nhelp, nmark,
                   text, stdout>>

CallIsOpt ==
    \E n \in AnyNames : Query("IsOpt", n[1], n[2], IsOpt(parser, n[1], n[2]))

CallIsStrOpt ==
    \E n \in AnyNames : Query("IsStrOpt", n[1], n[2], IsStrOpt(parser, n[1], n[2]))

CallIsIntOpt ==
    \E n \in AnyNames :
        Query("IsIntOpt", n[1], n[2], IsIntOpt(parser, n[1], n[2], LevelMin, LevelMax))

CallIsArg ==
    Query("IsArg", Empty, Empty, [p |-> parser, ret |-> IsArg(parser)])

CallIsArgN ==
    \E i \in AnyIdx :
        Query("IsArgN", Empty, Empty, [p |-> parser, ret |-> IsArgN(parser, i)])

CallArgIdx ==
    Query("ArgIdx", Empty, Empty, [p |-> parser, ret |-> TRUE])

CallArg ==
    Query("Arg", Empty, Empty, [p |-> Arg(parser).p, ret |-> TRUE, str |-> Arg(parser).ret])

\* an arbitrary callback returns
FnReturn ==
    /\ pc = "fn"
    /\ mode = "any"
    /\ pc' = "ret"
    /\ call' = NoCall
    /\ UNCHANGED <<args, Program, parser, mode, opts, result, cur, nfn, nhelp,
                   nlook, nmark, text, stdout>>

\* lines 221-231
AfterFn ==
    /\ pc = "ret"
    /\ LET c == ParseArgsAfterFn(parser) IN
        /\ parser' = c.p
        /\ pc' = c.to
        /\ result' = c.res
    /\ UNCHANGED <<args, Program, mode, opts, call, cur, nfn, nhelp, nlook, nmark,
                   text, stdout>>

\* the next test function calls parse_cmdline: a new vector, a new Opts and a
\* new Parser, while the package variable Program keeps its value
Again ==
    /\ pc = "done"
    /\ args' \in AgainVectors
    /\ parser' = NewParser(<<>>)
    /\ pc' = "start"
    /\ opts' = NewOpts
    /\ result' = NoErr
    /\ call' = NoCall
    /\ cur' = Empty
    /\ nfn' = 0
    /\ nhelp' = 0
    /\ nlook' = 0
    /\ nmark' = 0
    /\ UNCHANGED <<Program, mode, text, stdout>>

NextTest ==
    \/ Enter
    \/ Loop
    \/ FnTest
    \/ AfterFn

NextAny ==
    \/ Enter
    \/ Loop
    \/ CallIsOpt
    \/ CallIsStrOpt
    \/ CallIsIntOpt
    \/ CallIsArg
    \/ CallIsArgN
    \/ CallArgIdx
    \/ CallArg
    \/ FnReturn
    \/ AfterFn

NextEdge ==
    \/ Enter
    \/ Loop
    \/ FnTest
    \/ CallIsOpt
    \/ CallIsStrOpt
    \/ CallIsIntOpt
    \/ CallIsArg
    \/ CallIsArgN
    \/ CallArgIdx
    \/ CallArg
    \/ FnReturn
    \/ AfterFn

NextAgain ==
    \/ Enter
    \/ Loop
    \/ FnTest
    \/ AfterFn
    \/ Again

NextHelp ==
    \/ PrintHelp

\* ParseArgs with the callback of parse_cmdline
Spec == InitTest /\ [][NextTest]_vars

\* ParseArgs with an arbitrary callback
SpecAny == InitAny /\ [][NextAny]_vars

\* ParseArgs with an arbitrary callback, on integer-valued tokens
SpecInt == InitInt /\ [][NextAny]_vars

\* PrintHelp on a help text
SpecHelp == InitHelp /\ [][NextHelp]_vars

\* ParseArgs with an arbitrary callback that returns: ParseArgs goes on with
\* its next step whenever it has one, and a running fn returns at some time
SpecTerm ==
    /\ InitTerm
    /\ [][NextAny]_vars
    /\ WF_vars(Enter)
    /\ WF_vars(Loop)
    /\ WF_vars(FnReturn)
    /\ WF_vars(AfterFn)

\* successive calls of parse_cmdline in one process
SpecAgain == InitAgain /\ [][NextAgain]_vars

\* ParseArgs with either callback, on dash-only and empty-value tokens
SpecEdge == InitEdge /\ [][NextEdge]_vars

----------------------------------------------------------------------------
(* Properties *)

\* fn has just been called for token cur and has not yet called a query method
AtFnEntry == pc = "fn" /\ call = NoCall

\* C1: once a bare "--" has been consumed outside only-positional mode with a
\* token remaining, every later token, the one right after "--" included,
\* reaches the callback as a positional token: empty option name, and the
\* raw token as the string value.
C1_AfterMarkerVerbatim ==
    (AtFnEntry /\ parser.onlyArgs) => (parser.opt = Empty /\ parser.strVal = cur)

\* C2: when the callback returns with no error recorded and the token
\* unclaimed, ParseArgs returns at once, with the unknown-option error naming
\* the token's option name if it has one and with the too-many-arguments
\* error otherwise, and fn is not called again; and ParseArgs returns no
\* error only if every token handed to fn was claimed.
C2_UnclaimedTokenFails ==
    /\ [][(pc = "ret" /\ parser.err = NoErr /\ ~parser.grabbed)
            => /\ pc' = "done"
               /\ result' = IF parser.opt # Empty THEN ErrUnknownOpt(parser.opt)
                            ELSE ErrTooManyArgs
               /\ nfn' = nfn]_vars
    /\ [][pc = "done" => (pc' = "done" /\ nfn' = nfn)]_vars
    /\ []((pc = "loop" /\ nfn > 0) => parser.grabbed)
    /\ []((pc = "done" /\ result = NoErr /\ nfn > 0) => parser.grabbed)

\* ParseArgs has returned the unknown-option error for an unclaimed option token
C2_Witness ==
    /\ pc = "done"
    /\ ~parser.grabbed
    /\ result = ErrUnknownOpt(file)
    /\ nfn < Len(args) - 1

\* C3: once an error is recorded on the parser, no token is removed from the
\* remaining tokens any more and fn is not called again.
C3_NothingConsumedAfterError ==
    [][parser.err # NoErr => (parser'.rest = parser.rest /\ nfn' = nfn)]_vars

\* C4: the error recorded on the parser, and returned by ParseArgs, is the
\* first one raised: a recorded error is never replaced.
C4_FirstErrorKept ==
    /\ [][parser.err # NoErr => parser'.err = parser.err]_vars
    /\ [](pc = "done" => result = parser.err)

\* C5: the positional index changes only when Arg() claims a positional
\* token (empty option name, non-empty value), and then by exactly one.
C5_ArgIdxCountsPositionals ==
    [][(pc # "start" /\ parser'.argIdx # parser.argIdx)
         => /\ call'.op = "Arg"
            /\ IsArg(parser)
            /\ parser'.argIdx = parser.argIdx + 1]_vars

\* the next token to be taken off the remaining tokens is --help, no error
\* is recorded and no "--" marker has been passed
HelpIsNext ==
    /\ pc \in {"loop", "fn"}
    /\ parser.err = NoErr
    /\ ~parser.onlyArgs
    /\ Len(parser.rest) > 0
    /\ Head(parser.rest) = tHelp

\* C6: a --help token met before any error and before a "--" marker stops
\* the parse, also when it directly follows an option that expects a value:
\* the help handler is called once with Help, ParseArgs returns no error, fn
\* is called neither for --help nor for a later token, and what the callback
\* has assigned so far is kept.
C6_HelpStopsParse ==
    /\ [][(HelpIsNext /\ parser'.rest # parser.rest)
            => /\ pc' = "done"
               /\ result' = NoErr
               /\ nhelp' = nhelp + 1
               /\ nfn' = nfn
               /\ opts' = [opts EXCEPT !.help = Help]]_vars
    /\ [](nhelp <= 1)

\* the short name parse_cmdline gives to a long option name
ShortOf(long) == <<long[1]>>

\* token t is --NAME=V with NAME one of the value options file and level of
\* parse_cmdline and V non-empty and not starting with "-"
IsInlineValueOpt(t) ==
    /\ Len(t) > 3
    /\ t[1] = "-" /\ t[2] = "-" /\ t[3] # "-"
    /\ LET parts == SplitN2(SubSeq(t, 3, Len(t))) IN
        /\ Len(parts) = 2
        /\ parts[1] \in {file, level}
        /\ parts[2] # Empty
        /\ parts[2][1] # "-"

InlineName(t)  == SplitN2(SubSeq(t, 3, Len(t)))[1]
InlineValue(t) == SplitN2(SubSeq(t, 3, Len(t)))[2]

\* the vector a with token i replaced by the tokens of w
Replaced(a, i, w) == SubSeq(a, 1, i - 1) \o w \o SubSeq(a, i + 1, Len(a))

\* what parse_cmdline hands back, with the positional index
Outcome(r) == [opts |-> r.o, argIdx |-> r.p.argIdx, err |-> r.res]

\* replacing token i of args by the short form -s V or by the two tokens
\* --NAME V gives the outcome the finished parse of args has
SameOutcomeSplit(i) ==
    LET here == [opts |-> opts, argIdx |-> parser.argIdx, err |-> result]
        name == InlineName(args[i])
        val  == InlineValue(args[i])
    IN  /\ Outcome(ParseCmdline(Replaced(args, i, <<<<"-">> \o ShortOf(name), val>>))) = here
        /\ Outcome(ParseCmdline(Replaced(args, i, <<<<"-", "-">> \o name, val>>))) = here

\* C7 as stated: with the callback of parse_cmdline, replacing any --NAME=V
\* of the vector by -s V or by --NAME V (V non-empty, not starting with "-")
\* leaves the final result unchanged.
C7_SplitFormSameResultAnywhere ==
    pc = "done" =>
        \A i \in 2..Len(args) : IsInlineValueOpt(args[i]) => SameOutcomeSplit(i)

\* C7, amended: the same for every --NAME=V that no "--" token precedes in
\* the vector.
C7_SplitFormSameResult ==
    pc = "done" =>
        \A i \in 2..Len(args) :
            (IsInlineValueOpt(args[i]) /\ \A j \in 2..(i - 1) : args[j] # tMarker)
                => SameOutcomeSplit(i)

\* a finished parse in which --file=x and --level=2 were both taken as options,
\* after a positional and the flag
C7_Witness ==
    /\ pc = "done"
    /\ result = NoErr
    /\ Len(args) = 5
    /\ args[3] = tFileX
    /\ args[5] = tLevel2
    /\ opts.file = <<"x">>
    /\ opts.level = 2
    /\ opts.cmd = <<"x">>
    /\ opts.verbose

\* the step is a call of query method op on an option token that matches the
\* names passed
MatchingCall(op) ==
    /\ pc = "fn"
    /\ call'.op = op
    /\ parser.opt # Empty
    /\ parser.opt \in {call'.long, call'.short}

\* C8: IsStrOpt matching an option token without inline value, when no token
\* remains or the next one starts with "-", records the expects-a-value
\* error naming the long form, returns false and does not claim; and
\* ParseArgs returns the error that is recorded when the callback returns.
C8_MissingValueIsError ==
    /\ [][(/\ MatchingCall("IsStrOpt")
           /\ parser.strVal = Empty
           /\ (parser.rest = <<>> \/ HasDashPrefix(Head(parser.rest))))
            => /\ call'.ret = FALSE
               /\ parser'.err = ErrValueExpected(call'.long)
               /\ parser'.grabbed = parser.grabbed]_vars
    /\ [][(pc = "fn" /\ pc' = "ret") => parser' = parser]_vars
    /\ [][(pc = "ret" /\ parser.err # NoErr)
            => (pc' = "done" /\ result' = parser.err)]_vars

\* ParseArgs has returned the expects-a-value error of -f followed by --help
C8_Witness ==
    /\ pc = "done"
    /\ Len(args) > 2
    /\ args[2] = tF
    /\ args[3] = tHelp
    /\ nfn = 1
    /\ ~parser.grabbed
    /\ result = ErrValueExpected(file)

DigitChar(d) == <<"0", "1", "2", "3", "4", "5", "6", "7", "8", "9">>[d + 1]

\* the decimal numeral of v, for -9 <= v <= 9, the integers the tokens of
\* IntTokens write
Itoa(v) == IF v < 0 THEN <<"-", DigitChar(0 - v)>> ELSE <<DigitChar(v)>>

\* s is a base-10 numeral of v: the decimal numeral, for v >= 0 also with "+"
Denotes(s, v) == s = Itoa(v) \/ (v >= 0 /\ s = <<"+">> \o Itoa(v))

\* the value IsStrOpt captures for the current token: the inline value, or
\* else the next token
Captured(p) == IF p.strVal # Empty THEN p.strVal ELSE Head(p.rest)

\* the current token has a value for IsStrOpt to capture
HasValue(p) ==
    \/ p.strVal # Empty
    \/ (p.rest # <<>> /\ Head(p.rest) # Empty /\ ~HasDashPrefix(Head(p.rest)))

\* C9: IsIntOpt on a matching option with a captured value returns true and
\* stores v as IntVal exactly when the value is a base-10 integer v with
\* min <= v <= max; otherwise it returns false, leaves IntVal as it was and
\* records the not-a-number, the below-min or the above-max error, each
\* naming the option.
C9_IntOptRange ==
    [][(MatchingCall("IsIntOpt") /\ HasValue(parser))
        => LET s == Captured(parser)
               long == call'.long
               V == {v \in (0 - 9)..9 : Denotes(s, v)}
           IN  /\ parser'.strVal = s
               /\ IF \E v \in V : LevelMin <= v /\ v <= LevelMax
                  THEN /\ call'.ret = TRUE
                       /\ parser'.intVal \in V
                       /\ parser'.err = parser.err
                  ELSE /\ call'.ret = FALSE
                       /\ parser'.intVal = parser.intVal
                       /\ IF V = {} THEN parser'.err = ErrInvalidNumber(s, long)
                          ELSE \E v \in V :
                                parser'.err = IF v < LevelMin
                                              THEN ErrTooSmall(LevelMin, v, long)
                                              ELSE ErrTooLarge(LevelMax, v, long)]_vars

\* IsIntOpt has just accepted the upper bound while a smaller value was stored
C9_Witness ==
    /\ pc = "fn"
    /\ call.op = "IsIntOpt"
    /\ call.ret
    /\ cur = tFile3
    /\ parser.intVal = LevelMax
    /\ args[2] = tFile2
    /\ parser.err = NoErr

\* C10: IsOpt on a matching option token with a value records the
\* forbids-a-value error naming the long form, returns false and does not
\* claim; without a value it claims, returns true and records no error.
C10_FlagForbidsValue ==
    [][MatchingCall("IsOpt")
        => IF parser.strVal # Empty
           THEN /\ call'.ret = FALSE
                /\ parser'.err = ErrNoValueAllowed(call'.long)
                /\ parser'.grabbed = parser.grabbed
           ELSE /\ call'.ret = TRUE
                /\ parser'.grabbed
                /\ parser'.err = parser.err]_vars

\* IsOpt has just refused --file=x, left unclaimed
C10_Witness ==
    /\ pc = "fn"
    /\ call.op = "IsOpt"
    /\ ~call.ret
    /\ cur = tFileX
    /\ ~parser.grabbed
    /\ parser.err = ErrNoValueAllowed(file)


\* the token consists of dashes only and is not the end-of-options marker
DashOnly(t) == t # Empty /\ t # tMarker /\ \A i \in 1..Len(t) : t[i] = "-"

Sentinel == <<"?", "?", "?">>

\* fn is running for a dash-only token classified outside only-positional mode
DashOnlyAtFn == pc = "fn" /\ DashOnly(cur) /\ ~parser.onlyArgs

\* C11: outside only-positional mode a dash-only token is classified with the
\* option name ???, IsArg and IsArgN are false for it, an option matcher whose
\* names differ from ??? returns false and leaves the parser as it is, and
\* the callback of the test file returns from it into the unknown-option
\* error for ???, which ParseArgs returns.
C11_DashOnlyIsUnknownOption ==
    [][/\ DashOnlyAtFn
           => /\ parser.opt = Sentinel
              /\ ~IsArg(parser)
              /\ \A n \in AnyIdx : ~IsArgN(parser, n)
       /\ DashOnlyAtFn /\ call'.op \in {"IsOpt", "IsStrOpt", "IsIntOpt"}
                       /\ Sentinel \notin {call'.long, call'.short}
           => call'.ret = FALSE /\ parser' = parser
       /\ DashOnlyAtFn /\ call'.op \in {"IsArg", "IsArgN"}
           => call'.ret = FALSE /\ parser' = parser
       /\ DashOnlyAtFn /\ mode = "test"
           => pc' = "ret" /\ parser' = parser
       /\ pc = "ret" /\ mode = "test" /\ DashOnly(cur) /\ ~parser.onlyArgs
           => /\ pc' = "done"
              /\ result' = ErrUnknownOpt(Sentinel)]_vars

\* parse_cmdline has been given ["/b/c", "--file=x", "---"]: the second token
\* was handed to the callback and the parse has ended with unknown option ???
C11_Witness ==
    /\ mode = "test"
    /\ pc = "done"
    /\ args = <<tProg, tFileX, tDash3>>
    /\ cur = tDash3
    /\ nfn = 2
    /\ result = ErrUnknownOpt(Sentinel)


\* the place in args of the token ParseArgs has taken last in parser state p
Taken(p) == Len(args) - Len(p.rest)

\* C12: a ParseArgs call sets Program to the last path segment of args[0] only
\* when Program is empty, and no other step of any call changes it; the
\* parser starts on the vector without its first element, so the token handed
\* to the callback, the token taken as --help and the token taken as the
\* marker all stand at a place after the first.
C12_ProgramSetOnlyWhenEmpty ==
    [][/\ pc = "start"
           => /\ Program' = IF Program = Empty /\ Len(args) > 0
                             THEN Base(args[1]) ELSE Program
              /\ parser'.rest = IF Len(args) > 0 THEN Tail(args) ELSE args
       /\ pc # "start" => Program' = Program
       /\ pc = "loop" /\ pc' = "fn"
           => Taken(parser') >= 2 /\ cur' = args[Taken(parser')]
       /\ nhelp' > nhelp
           => Taken(parser') >= 2 /\ args[Taken(parser')] = tHelp
       /\ nmark' > nmark
           => LET m == IF pc' = "fn" THEN Taken(parser') - 1 ELSE Taken(parser')
              IN  m >= 2 /\ args[m] = tMarker]_vars

\* a later call whose vector starts with "d" and holds a further token has run
\* to its end, and Program is still the "c" of an earlier call's "/b/c"
C12_Witness ==
    /\ pc = "done"
    /\ Len(args) >= 2
    /\ args[1] = <<"d">>
    /\ Program = <<"c">>
    /\ nfn >= 1


\* the places of the line breaks of s
Breaks(s) == {i \in 1..Len(s) : s[i] = "\n"}

\* the place of the k-th line break of s; 0 and Len(s) + 1 bound the text
BreakAt(s, k) ==
    IF k = 0 THEN 0
    ELSE IF k > Cardinality(Breaks(s)) THEN Len(s) + 1
    ELSE CHOOSE i \in Breaks(s) : Cardinality({j \in Breaks(s) : j < i}) = k - 1

\* the k-th line of s
RefRaw(s, k) == SubSeq(s, BreakAt(s, k - 1) + 1, BreakAt(s, k) - 1)

\* l from its first to its last character that is not whitespace
RefTrim(l) ==
    LET ink == {i \in 1..Len(l) : ~IsSpace(l[i])} IN
    IF ink = {} THEN Empty
    ELSE SubSeq(l, CHOOSE i \in ink : \A j \in ink : i <= j,
                   CHOOSE i \in ink : \A j \in ink : i >= j)

\* the k-th line of the reference result
RefLine(s, k) ==
    LET t == RefTrim(RefRaw(s, k)) IN
    IF t # Empty /\ t[1] = "|" THEN [t EXCEPT ![1] = " "] ELSE t

\* the number of the last line of the reference result that is not empty
RefKeep(s) ==
    LET K == {k \in 1..(Cardinality(Breaks(s)) + 1) : RefLine(s, k) # Empty} IN
    IF K = {} THEN 0 ELSE CHOOSE k \in K : \A j \in K : k >= j

\* lines 1..n of the reference result, joined with line breaks
RECURSIVE RefText(_, _)
RefText(s, n) ==
    IF n = 0 THEN Empty
    ELSE IF n = 1 THEN RefLine(s, 1)
    ELSE RefText(s, n - 1) \o <<"\n">> \o RefLine(s, n)

\* C13: FormatHelp(help) is the reference result: the lines of help, each
\* trimmed of whitespace at both ends and with a leading | replaced by one
\* space, up to the last line that is not empty, joined with line breaks;
\* so it never ends with a line break, and PrintHelp writes it with one line
\* break after it.
C13_FormatHelpIsReference ==
    pc = "exit"
        => /\ FormatHelp(text) = RefText(text, RefKeep(text))
           /\ stdout = RefText(text, RefKeep(text)) \o <<"\n">>
           /\ LET out == FormatHelp(text) IN out = Empty \/ out[Len(out)] # "\n"

\* PrintHelp has written " \n\na\n" for the help text "|\n\na\n": the | is
\* replaced, the blank line inside is kept, the empty last line is gone
C13_Witness ==
    /\ pc = "exit"
    /\ text = <<"|", "\n", "\n", "a", "\n">>
    /\ stdout = <<" ", "\n", "\n", "a", "\n">>


\* C14: onlyArgs is false when the parse starts, becomes true only in the
\* loop step that takes a -- with a further token behind it, and stays true;
\* a -- or --help handed to the callback in that mode is a positional with
\* the token as its value, calls no help handler and is no second marker;
\* and a -- that is the last token ends the parse with no error and without
\* a call of the callback.
C14_OnlyArgsMonotone ==
    [][/\ pc = "start" => ~parser'.onlyArgs
       /\ parser.onlyArgs => parser'.onlyArgs
       /\ ~parser.onlyArgs /\ parser'.onlyArgs
           => /\ pc = "loop"
              /\ Len(parser.rest) >= 2
              /\ Head(parser.rest) = tMarker
       /\ pc = "loop" /\ pc' = "fn" /\ parser'.onlyArgs /\ cur' \in {tMarker, tHelp}
           => /\ IsArg(parser')
              /\ parser'.strVal = cur'
              /\ nhelp' = nhelp
              /\ nmark' <= 1
       /\ pc = "loop" /\ ~parser.onlyArgs /\ parser.rest = <<tMarker>>
           => /\ pc' = "done"
              /\ result' = NoErr
              /\ nfn' = nfn]_vars


\* the token is written as an option and holds a =
HasEq(t) == HasDashPrefix(t) /\ \E i \in 1..Len(t) : t[i] = "="

\* the text of t after its first =
AfterFirstEq(t) ==
    LET i == CHOOSE i \in 1..Len(t) : t[i] = "=" /\ \A j \in 1..(i - 1) : t[j] # "="
    IN  SubSeq(t, i + 1, Len(t))

\* C15: when the current token is an option token with a = (the text after
\* it may be empty) and no error is recorded, a matching IsStrOpt returns
\* true, claims the token, leaves the remaining tokens as they are, and
\* StrVal() is then the text after the first =.
C15_InlineValueClaimedAtOnce ==
    [][/\ pc = "fn"
       /\ ~parser.onlyArgs
       /\ parser.err = NoErr
       /\ HasEq(cur)
       /\ call'.op = "IsStrOpt"
       /\ parser.opt \in {call'.long, call'.short}
       => /\ call'.ret = TRUE
          /\ parser'.grabbed
          /\ parser'.rest = parser.rest
          /\ StrVal(parser') = AfterFirstEq(cur)]_vars


\* C16: a call of Arg() returns the current string value; the first one for
\* a token not yet claimed sets the claimed flag and advances the positional
\* index by one, every call for a claimed token leaves the parser as it is
\* (so n calls leave it as one call does); and within one callback
\* invocation the claimed flag is never taken back and the index changes
\* only together with the flag being set, that is at most once per token.
C16_ArgIdempotent ==
    [][/\ pc = "fn" /\ call'.op = "Arg"
           => /\ call'.str = parser.strVal
              /\ parser'.strVal = parser.strVal
              /\ parser'.grabbed
              /\ parser.grabbed => parser' = parser
              /\ ~parser.grabbed
                    => parser' = [parser EXCEPT !.grabbed = TRUE,
                                                !.argIdx = parser.argIdx + 1]
              /\ Arg(parser').p = parser'
              /\ Arg(parser').ret = call'.str
       /\ pc = "fn"
           => /\ parser.grabbed => parser'.grabbed
              /\ parser'.argIdx # parser.argIdx
                    => /\ ~parser.grabbed /\ parser'.grabbed
                       /\ parser'.argIdx = parser.argIdx + 1]_vars

\* the callback has called Arg() for the second of two positional tokens, each
\* claimed through Arg(): the index is 2 and the call returned the token
C16_Witness ==
    /\ pc = "fn"
    /\ call.op = "Arg"
    /\ cur = tX
    /\ call.str = tX
    /\ nfn = 2
    /\ parser.grabbed
    /\ parser.argIdx = 2


\* the option name an error of a matcher names: the last string of its arguments
NamedOpt(e) == e.s[Len(e.s)]

\* C17: when IsOpt, IsStrOpt or IsIntOpt is called with a name equal to the
\* stored option name, the stored name is the long name afterwards, and if
\* the call returns false it has recorded an error that names the long
\* name; when neither name is equal the call returns false and leaves the
\* parser, and so the stored name, as it is.  parse_cmdline on -l 4 returns
\* the number-too-large error for 3 and 4 that names level.
C17_MatchStoresLongName ==
    [][/\ pc = "fn" /\ call'.op \in {"IsOpt", "IsStrOpt", "IsIntOpt"}
           => IF parser.opt \in {call'.long, call'.short}
              THEN /\ parser'.opt = call'.long
                   /\ ~call'.ret => /\ parser'.err # NoErr
                                    /\ NamedOpt(parser'.err) = call'.long
              ELSE /\ ~call'.ret
                   /\ parser' = parser
       /\ pc = "start"
           => ParseCmdline(<<tProg, tL, <<"4">>>>).res = ErrTooLarge(LevelMax, 4, level)]_vars

\* the callback has called IsStrOpt("file", "f") for the short form -f with no
\* value behind it: the stored name is file and the error names file
C17_Witness ==
    /\ pc = "fn"
    /\ cur = tF
    /\ call.op = "IsStrOpt"
    /\ call.long = file
    /\ ~call.ret
    /\ parser.opt = file
    /\ parser.err = ErrValueExpected(file)


\* C18: while the current token is a positional (empty option name, a value)
\* and no error is recorded, a call of IsOpt, IsStrOpt or IsIntOpt with any
\* names, an empty short name included, returns false and leaves the parser
\* as it is: no match, no claim, no error.
C18_PositionalNeverMatched ==
    [][/\ pc = "fn"
       /\ IsArg(parser)
       /\ parser.err = NoErr
       /\ call'.op \in {"IsOpt", "IsStrOpt", "IsIntOpt"}
       => /\ ~call'.ret
          /\ parser' = parser]_vars


\* the number of tokens after the program path
NTokens == IF Len(args) > 0 THEN Len(args) - 1 ELSE 0

\* every token taken so far is counted once: as the current token of a
\* callback invocation, as a value taken by lookahead, or as the marker
Conserved ==
    (pc \in {"loop", "fn", "ret", "done"} /\ parser.err = NoErr /\ nhelp = 0)
        => /\ nfn + nlook + nmark + Len(parser.rest) = NTokens
           /\ nmark <= 1
           /\ pc = "done" => parser.rest = <<>>

\* C19: while a parse has recorded no error and met no --help, the callback
\* invocations, the values taken by lookahead, the marker and the tokens not
\* yet taken add up to the tokens after the program path, and at its end
\* none is left; the tokens are taken in their order, one place at a time:
\* the token handed to the callback, the value taken by lookahead and the
\* marker each stand at the place just taken, which only moves forward.
C19_TokenConservation ==
    [][/\ Conserved'
       /\ pc # "start" => Len(parser'.rest) <= Len(parser.rest)
       /\ pc = "loop" /\ pc' = "fn" => cur' = args[Taken(parser')]
       /\ nfn' > nfn => nfn' = nfn + 1 /\ pc = "loop" /\ pc' = "fn"
       /\ nlook' > nlook
           => /\ nlook' = nlook + 1
              /\ Len(parser'.rest) = Len(parser.rest) - 1
              /\ parser'.strVal = args[Taken(parser')]
              /\ args[Taken(parser')] # cur
       /\ nmark' > nmark
           => /\ Len(parser'.rest) = Len(parser.rest) - (IF pc' = "fn" THEN 2 ELSE 1)
              /\ args[Taken(parser) + 1] = tMarker
       /\ nfn' = nfn /\ nlook' = nlook /\ nmark' = nmark /\ nhelp' = nhelp
          /\ parser'.err = NoErr /\ pc # "start"
           => parser'.rest = parser.rest]_vars

\* ["/b/c", "-f", "x", "--"] is parsed without error: one callback
\* invocation, one value taken by lookahead, one marker, three tokens
C19_Witness ==
    /\ pc = "done"
    /\ result = NoErr
    /\ nhelp = 0
    /\ Len(args) = 4
    /\ nfn = 1
    /\ nlook = 1
    /\ nmark = 1


\* the parse has ended in exactly one way: all tokens taken without error,
\* the help handler called once without error, or the recorded error returned
OneOutcome ==
    LET clean == result = NoErr /\ nhelp = 0 /\ parser.rest = <<>>
        help  == result = NoErr /\ nhelp = 1
        error == result # NoErr /\ nhelp = 0 /\ result = parser.err
    IN  Cardinality({o \in {"clean", "help", "error"} :
                        \/ o = "clean" /\ clean
                        \/ o = "help" /\ help
                        \/ o = "error" /\ error}) = 1

\* C20: with a callback that returns, every parse reaches its end and stays
\* there; each pass through the loop head takes at least one token off the
\* remaining ones, which never grow; the callback is invoked at most once
\* per token; and the parse has ended in exactly one of the three ways.
C20_ParseTerminates ==
    /\ <>[](pc = "done")
    /\ [][/\ pc # "start" => Len(parser'.rest) <= Len(parser.rest)
          /\ pc = "loop" /\ parser.rest # <<>>
                => Len(parser'.rest) < Len(parser.rest)
          /\ pc = "loop" /\ parser.rest = <<>> => pc' = "done"
          /\ nfn' <= NTokens
          /\ nfn' > nfn => Len(parser'.rest) < Len(parser.rest)
          /\ pc' = "done" => OneOutcome']_vars

\* a parse of two tokens has ended without error after two callback invocations
C20_Witness ==
    /\ pc = "done"
    /\ Len(args) = 3
    /\ nfn = 2
    /\ parser.rest = <<>>
    /\ result = NoErr

=============================================================================
